---- MODULE Spec2Model ----
(***************************************************************************)
(* Request execution engine of the OpeniBank Python SDK                    *)
(* (sdks/python/openibank/__init__.py): HTTPClient token cache, retry loop *)
(* and error classification.                                               *)
(*                                                                         *)
(* One step of the model is the code that runs between two suspension      *)
(* points of a coroutine (an await on the transport or on asyncio.sleep).  *)
(* The transport and the token issuer are the environment: each dispatched *)
(* operation later completes with an exception or with a response.         *)
(* Response bodies follow the API's wire schema (JSON objects).            *)
(***************************************************************************)
EXTENDS Integers, Sequences, FiniteSets, TLC

----------------------------------------------------------------------------
\* Bounds of the model

\* the longest list of transactions the server holds
MaxTransactions == 4
\* the largest limit argument of iterate and the largest page the server gives
MaxLimit == 3
\* the most messages that arrive on one websocket
MaxMessages == 3
NumCalls == 2                 \* coroutine slots of request()
MaxRetriesBound == 3          \* largest config.max_retries explored
MaxTime == 60                 \* the clock is ticked by the environment up to here
TickStep == 30                \* granularity of the clock
RetryDelayChoice == 30        \* config.retry_delay explored (seconds)

Calls == 1..NumCalls
SeqCalls == {1}               \* Spec: the caller awaits each call before the next

----------------------------------------------------------------------------
\* Program constants

TokenMargin == 60             \* set_access_token: "- 60  # 60s buffer"
HeaderDefaultRetryAfter == 60 \* response.headers.get("Retry-After", "60")
FallbackRetryAfter == 60      \* RateLimitError: retry_after or 60.0

None == "None"
EmptyDict == "{}"

----------------------------------------------------------------------------
\* Input domains

\* (api_key, client_id, client_secret) of the Config
Credentials == {<<None, "", "">>, <<None, "client-id", "">>,
                <<None, "", "client-secret">>,
                <<None, "client-id", "client-secret">>,
                <<"api-key", "client-id", "client-secret">>}
MaxRetriesValues == (-1)..MaxRetriesBound
IdempotencyKeys == {None, "", "idem-1"}
IssuedTokens == {"tokA", "tokB"}
ExternalTokens == {"ext"}
ExpiresInValues == {30, 90}
Payloads == {"p1", "p2"}

\* The params argument: None, or a mapping. A mapping gives each key a value
\* or leaves it out (Absent); a value is None or a string ("0" and "False"
\* stand for the integer 0 and the boolean False).
Absent == "absent"
ParamKeys == {"status", "limit", "q"}
NoParams == [given |-> FALSE, entries |-> [k \in ParamKeys |-> Absent]]
Mapping(st, li, q) ==
    [given |-> TRUE, entries |-> [k \in ParamKeys |->
        IF k = "status" THEN st ELSE IF k = "limit" THEN li ELSE q]]
ParamsChoices == {NoParams,
                  Mapping(Absent, Absent, Absent),
                  Mapping(None, "50", Absent),
                  Mapping(None, "0", ""),
                  Mapping("False", None, None)}

\* The method, path and json arguments
Target(m, p, j) == [method |-> m, path |-> p, json |-> j]
NoTarget == Target(None, None, None)
GetAccounts == Target("GET", "/accounts", None)
PostPayment == Target("POST", "/payments", "payment-1")

\* (idempotency_key, params, target) of one request() call
CallArguments ==
    {<<k, NoParams, GetAccounts>> : k \in IdempotencyKeys}
    \cup {<<None, p, GetAccounts>> : p \in ParamsChoices \ {NoParams}}
    \cup {<<"idem-1", NoParams, PostPayment>>}

\* A Retry-After header: absent, a number of seconds, or an HTTP-date.
NoHeader == [present |-> FALSE, numeric |-> FALSE, value |-> 0]
DateHeader == [present |-> TRUE, numeric |-> FALSE, value |-> 0]
NumHeader(v) == [present |-> TRUE, numeric |-> TRUE, value |-> v]
RetryAfterSeconds == {0, 45}
RetryAfterHeaders == {NoHeader, DateHeader} \cup {NumHeader(v) : v \in RetryAfterSeconds}

SuccessStatuses == {200, 201}
ErrorStatuses == {202, 206, 302, 400, 401, 403, 404, 409, 500}

\* What the transport delivers for one dispatched operation.
TransportExceptions == {"ClientError", "TimeoutError"}
Exception(e) == [exc |-> e, status |-> 0, retry_after |-> NoHeader, body |-> None]
HttpResponse(s, h, b) == [exc |-> None, status |-> s, retry_after |-> h, body |-> b]
Deliveries ==
    {Exception(e) : e \in TransportExceptions}
    \cup {HttpResponse(s, NoHeader, b) : s \in SuccessStatuses, b \in Payloads}
    \cup {HttpResponse(204, NoHeader, None)}
    \cup {HttpResponse(s, NoHeader, "error-body") : s \in ErrorStatuses}
    \cup {HttpResponse(429, h, "error-body") : h \in RetryAfterHeaders}
    \cup {HttpResponse(503, NumHeader(120), "error-body")}

\* the deliveries of the specification of the caller's side: one of each way
\* an attempt can go on
CallerDeliveries ==
    {Exception("ClientError"),
     HttpResponse(200, NoHeader, "p1"),
     HttpResponse(404, NoHeader, "error-body"),
     HttpResponse(429, NumHeader(45), "error-body"),
     HttpResponse(500, NoHeader, "error-body")}

\* the deliveries of the specification of concurrent calls
ConcDeliveries ==
    {Exception("TimeoutError"),
     HttpResponse(200, NoHeader, "p1")}
\* the deliveries of the specification of successive calls
SuccDeliveries == ConcDeliveries \cup {HttpResponse(401, NoHeader, "error-body")}
ConcTokenDeliveries == {HttpResponse(401, NoHeader, "error-body")}

TokenDeliveries ==
    {Exception(e) : e \in TransportExceptions}
    \cup {HttpResponse(s, NoHeader, "error-body") : s \in {201, 401, 500}}

----------------------------------------------------------------------------
\* Errors and results

TypedErrors == {"AuthenticationError", "AuthorizationError", "ValidationError",
                "NotFoundError", "ConflictError", "RateLimitError",
                "ServerError", "NetworkError", "OpeniBankError"}

Error(k, s, ra) == [kind |-> k, status_code |-> s, retry_after |-> ra]
NoError == Error(None, 0, 0)

Returned(p) == [outcome |-> "returned", payload |-> p, error |-> NoError]
Raised(e) == [outcome |-> "raised", payload |-> None, error |-> e]
NoResult == [outcome |-> None, payload |-> None, error |-> NoError]

Truthy(s) == s # None /\ s # ""

----------------------------------------------------------------------------
VARIABLES
    config,           \* Config: api_key, client_id, client_secret, max_retries, retry_delay
    now,              \* time.time()
    access_token,     \* HTTPClient._access_token
    token_expires_at, \* HTTPClient._token_expires_at
    issuer_expiry,    \* history: set time + expires_in of the cached token
    session,          \* HTTPClient._session: "None", "open" or "closed"
    owned_session,    \* HTTPClient._owned_session
    pc,               \* per call: idle, token_fetch, inflight, sleeping, done
    idempotency_key,  \* per call: the idempotency_key argument
    token,            \* per call: local token
    token_expiry,     \* per call, history: issuer expiry of that token (NoExpiry: not a cached token)
    headers,          \* per call: local headers
    params,           \* per call: local params (after the None filter)
    attempt,          \* per call: loop variable attempt
    last_error,       \* per call: local last_error
    delay,            \* per call: local delay of the pending asyncio.sleep
    n_sent,           \* per call, history: number of attempts dispatched
    last_sent,        \* per call, history: the attempt dispatched last
    n_slept,          \* per call, history: number of sleeps started
    fetches,          \* per call, history: token requests dispatched
    start,            \* per call, history: clock and token cache when the call started
    last_delivery,    \* per call, history: what the transport delivered for the last attempt
    params_arg,       \* per call, history: the params argument
    target,           \* per call, history: the method, path and json arguments
    first_sent,       \* per call, history: what the first attempt carried
    token_delivery,   \* per call, history: what the token endpoint delivered
    last_writer,      \* history: whose token reached the cache code last (a call, or Caller)
    sessions_created, \* history: sessions the client created (counted up to 2)
    sessions_open,    \* history: sessions the client created and has not closed
    supplied,         \* history: the session given at construction: absent, open, closed
    holds_supplied,   \* history: _session is the session given at construction
    result,           \* per call: what request() returned or raised
    iter_pc,          \* iterate: idle, awaiting_list, suspended (at yield), exhausted, raised
    limit,            \* iterate: the limit argument
    offset,           \* iterate: local offset
    transactions,     \* iterate: local transactions, the page being yielded
    tx_index,         \* iterate: position of the for loop in transactions
    yielded,          \* iterate, history: the transactions yielded so far
    requested,        \* iterate, history: the offset params of the list() calls
    pages,            \* iterate, history: the pages list() returned
    server_transactions, \* the server's list of transactions of the account
    page_cap,         \* the largest page the server gives
    sub_pc,           \* Subscription._task: none, created, waiting, handling, ended, raised
    running,          \* Subscription._running
    handlers,         \* Subscription._handlers: the event types with a handler
    ws,               \* Subscription._ws: none, open, closing, closed
    inbox,            \* the messages the websocket has received and not handed over
    n_arrived,        \* history: number of messages arrived
    close_called,     \* history: Subscription.close() has been called
    invocations       \* history: the handler invocations started

vars == <<config, now, access_token, token_expires_at, issuer_expiry, session,
          owned_session, pc, idempotency_key, token, token_expiry, headers,
          params, attempt, last_error, delay, n_sent, last_sent, n_slept,
          fetches, start, last_delivery, params_arg, target, first_sent,
          token_delivery, last_writer, sessions_created, sessions_open,
          supplied, holds_supplied, result, iter_pc, limit, offset,
          transactions, tx_index, yielded, requested, pages,
          server_transactions, page_cap, sub_pc, running, handlers, ws,
          inbox, n_arrived, close_called, invocations>>

iterVars == <<iter_pc, limit, offset, transactions, tx_index, yielded,
              requested, pages, server_transactions, page_cap>>
subVars == <<sub_pc, running, handlers, ws, inbox, n_arrived, close_called,
             invocations>>
clientVars == <<access_token, token_expires_at, issuer_expiry, last_writer>>
sessionVars == <<session, owned_session, sessions_created, sessions_open,
                 supplied, holds_supplied>>
\* the locals of one request() frame
localVars == <<token, token_expiry, headers, params, attempt, last_error, delay>>
\* what is recorded about one call
historyVars == <<n_sent, last_sent, n_slept, fetches, start, last_delivery,
                 params_arg, target, first_sent, token_delivery>>
\* the variables of the client and of its calls
httpVars == <<config, now, clientVars, sessionVars, pc, idempotency_key,
              localVars, historyVars, result>>

NoHeaders == [Authorization |-> None, IdempotencyKey |-> None]
NoStart == [at |-> 0, access_token |-> None, token_expires_at |-> 0]
NoDelivery == Exception(None)
NoExpiry == -1
NoUrl == <<>>
NoSent == [headers |-> NoHeaders, params |-> NoParams, method |-> None,
           url |-> NoUrl, json |-> None, at |-> 0, issuer_expiry |-> NoExpiry]
NoFirstSent == [headers |-> NoHeaders, params |-> NoParams, method |-> None,
                url |-> NoUrl, json |-> None]
TokenReply(e, s, tok, expires_in, t) ==
    [exc |-> e, status |-> s, access_token |-> tok, expires_in |-> expires_in,
     at |-> t]
NoTokenReply == TokenReply(None, 0, None, 0, 0)
Nobody == 0
Caller == NumCalls + 1

\* HTTPClient.__init__(config, session): s is "None" when no session is
\* given, else the state of the given session
Construct(s) ==
    /\ \E cr \in Credentials, n \in MaxRetriesValues :
          config = [api_key |-> cr[1], client_id |-> cr[2],
                    client_secret |-> cr[3], max_retries |-> n,
                    retry_delay |-> RetryDelayChoice]
    /\ now = 0
    /\ access_token = None
    /\ token_expires_at = 0
    /\ issuer_expiry = 0
    /\ session = s
    /\ owned_session = (s = "None")
    /\ supplied = IF s = "None" THEN "absent" ELSE s
    /\ holds_supplied = (s # "None")
    /\ pc = [c \in Calls |-> "idle"]
    /\ idempotency_key = [c \in Calls |-> None]
    /\ token = [c \in Calls |-> None]
    /\ token_expiry = [c \in Calls |-> NoExpiry]
    /\ headers = [c \in Calls |-> NoHeaders]
    /\ params = [c \in Calls |-> NoParams]
    /\ params_arg = [c \in Calls |-> NoParams]
    /\ target = [c \in Calls |-> NoTarget]
    /\ first_sent = [c \in Calls |-> NoFirstSent]
    /\ token_delivery = [c \in Calls |-> NoTokenReply]
    /\ last_writer = Nobody
    /\ sessions_created = 0
    /\ sessions_open = 0
    /\ attempt = [c \in Calls |-> 0]
    /\ last_error = [c \in Calls |-> NoError]
    /\ delay = [c \in Calls |-> 0]
    /\ n_sent = [c \in Calls |-> 0]
    /\ last_sent = [c \in Calls |-> NoSent]
    /\ n_slept = [c \in Calls |-> 0]
    /\ fetches = [c \in Calls |-> 0]
    /\ start = [c \in Calls |-> NoStart]
    /\ last_delivery = [c \in Calls |-> NoDelivery]
    /\ result = [c \in Calls |-> NoResult]

\* no iterate() call has been made
NoIteration ==
    /\ iter_pc = "idle"
    /\ limit = 0
    /\ offset = 0
    /\ transactions = <<>>
    /\ tx_index = 0
    /\ yielded = <<>>
    /\ requested = <<>>
    /\ pages = <<>>

\* RealtimeResource.subscribe has not been called
NoSubscription ==
    /\ sub_pc = "none"
    /\ running = FALSE
    /\ handlers = {}
    /\ ws = "none"
    /\ inbox = <<>>
    /\ n_arrived = 0
    /\ close_called = FALSE
    /\ invocations = <<>>

\* a server that holds no transactions
EmptyServer ==
    /\ server_transactions = <<>>
    /\ page_cap = 1

\* a client constructed without a session; the resources are not used
Init ==
    /\ Construct("None")
    /\ NoIteration
    /\ EmptyServer
    /\ NoSubscription

\* the session argument: none, an open session, a session already closed
SuppliedSessions == {"None", "open", "closed"}

----------------------------------------------------------------------------
\* Pure parts of the code

CachedTokenFresh_Inclusive == Truthy(access_token) /\ now <= token_expires_at

\* _ensure_token: "if self._access_token and time.time() < self._token_expires_at"
CachedTokenFresh == Truthy(access_token) /\ now < token_expires_at

HasClientCredentials_Either == Truthy(config.client_id) \/ Truthy(config.client_secret)

\* _ensure_token: "if self.config.client_id and self.config.client_secret"
HasClientCredentials == Truthy(config.client_id) /\ Truthy(config.client_secret)

TokenSource_ApiKeyFirst ==
    IF Truthy(config.api_key) THEN "api_key"
    ELSE IF CachedTokenFresh THEN "cache"
    ELSE IF HasClientCredentials THEN "fetch"
    ELSE "none"

TokenSource_CredentialsFirst ==
    IF CachedTokenFresh THEN "cache"
    ELSE IF HasClientCredentials THEN "fetch"
    ELSE IF Truthy(config.api_key) THEN "api_key"
    ELSE "none"

\* _ensure_token: which of its four exits is taken
TokenSource ==
    IF CachedTokenFresh THEN "cache"
    ELSE IF Truthy(config.api_key) THEN "api_key"
    ELSE IF HasClientCredentials THEN "fetch"
    ELSE "none"

FilterParams_DropsFalsy(p) ==
    IF p.given /\ (\E k \in ParamKeys : p.entries[k] # Absent)
    THEN [given |-> TRUE,
          entries |-> [k \in ParamKeys |->
                         IF p.entries[k] \in {None, "0", "False", ""}
                         THEN Absent ELSE p.entries[k]]]
    ELSE p

\* request(): "if params: params = {k: v ... if v is not None}"
FilterParams(p) ==
    IF p.given /\ (\E k \in ParamKeys : p.entries[k] # Absent)
    THEN [given |-> TRUE,
          entries |-> [k \in ParamKeys |->
                         IF p.entries[k] = None THEN Absent ELSE p.entries[k]]]
    ELSE p

ExpiresAt_NoMargin(t, expires_in) == t + expires_in

\* request(): url = f"{base_url}/{api_version}{path}"
Url(path) == <<"base_url", "/", "api_version", path>>

\* what one attempt hands to session.request
Sent(c, h, p) ==
    [headers |-> h, params |-> p, method |-> target'[c].method,
     url |-> Url(target'[c].path), json |-> target'[c].json]

\* set_access_token: time.time() + expires_in - 60
ExpiresAt(t, expires_in) == t + expires_in - TokenMargin

\* _get_headers, then "if idempotency_key: headers[...] = idempotency_key"
GetHeaders(tok, key) ==
    [Authorization |-> <<"Bearer", tok>>,
     IdempotencyKey |-> IF Truthy(key) THEN key ELSE None]

\* self.config.retry_delay * (2**attempt)
BackoffDelay_Constant(i) == config.retry_delay

BackoffDelay(i) == config.retry_delay * (2 ^ i)

\* RateLimitError.__init__: self.retry_after = retry_after or 60.0
RateLimitError(s, retry_after) ==
    Error("RateLimitError", s, IF retry_after = 0 THEN FallbackRetryAfter ELSE retry_after)

\* float(response.headers.get("Retry-After", "60"))
RetryAfterParses(h) == ~h.present \/ h.numeric
ParseRetryAfter(h) == IF h.present THEN h.value ELSE HeaderDefaultRetryAfter

\* The if/elif chain on response.status
ClassifyError(r) ==
    IF r.status = 401 THEN Error("AuthenticationError", r.status, 0)
    ELSE IF r.status = 403 THEN Error("AuthorizationError", r.status, 0)
    ELSE IF r.status = 400 THEN Error("ValidationError", r.status, 0)
    ELSE IF r.status = 404 THEN Error("NotFoundError", r.status, 0)
    ELSE IF r.status = 409 THEN Error("ConflictError", r.status, 0)
    ELSE IF r.status = 429 THEN
        IF RetryAfterParses(r.retry_after)
        THEN RateLimitError(r.status, ParseRetryAfter(r.retry_after))
        ELSE Error("ValueError", 0, 0)
    ELSE IF r.status >= 500 THEN Error("ServerError", r.status, 0)
    ELSE Error("OpeniBankError", r.status, 0)

AttemptOutcome_Only200(r) ==
    IF r.exc # None THEN Raised(Error(r.exc, 0, 0))
    ELSE IF r.status = 200 THEN Returned(r.body)
    ELSE IF r.status = 204 THEN Returned(EmptyDict)
    ELSE Raised(ClassifyError(r))

AttemptOutcome_Any2xxSucceeds(r) ==
    IF r.exc # None THEN Raised(Error(r.exc, 0, 0))
    ELSE IF r.status = 204 THEN Returned(EmptyDict)
    ELSE IF r.status \in 200..299 THEN Returned(r.body)
    ELSE Raised(ClassifyError(r))

AttemptOutcome_NullFor204(r) ==
    IF r.exc # None THEN Raised(Error(r.exc, 0, 0))
    ELSE IF r.status \in SuccessStatuses THEN Returned(r.body)
    ELSE IF r.status = 204 THEN Returned(None)
    ELSE Raised(ClassifyError(r))

\* Body of the "async with session.request(...)" block of one attempt
AttemptOutcome(r) ==
    IF r.exc # None THEN Raised(Error(r.exc, 0, 0))
    ELSE IF r.status = 200 \/ r.status = 201 THEN Returned(r.body)
    ELSE IF r.status = 204 THEN Returned(EmptyDict)
    ELSE Raised(ClassifyError(r))

----------------------------------------------------------------------------
\* Action fragments

\* set_access_token(token, expires_in)
SetToken_KeepsLaterExpiry(tok, expires_in) ==
    /\ access_token' = tok
    /\ token_expires_at' = IF ExpiresAt(now, expires_in) > token_expires_at
                           THEN ExpiresAt(now, expires_in) ELSE token_expires_at
    /\ issuer_expiry' = now + expires_in

SetToken(tok, expires_in) ==
    /\ access_token' = tok
    /\ token_expires_at' = ExpiresAt(now, expires_in)
    /\ issuer_expiry' = now + expires_in

\* _get_session
GetSession ==
    IF session = "None" \/ session = "closed"
    THEN /\ session' = "open"
         /\ owned_session' = TRUE
         /\ sessions_created' = IF sessions_created < 2
                                THEN sessions_created + 1 ELSE sessions_created
         /\ sessions_open' = sessions_open + 1
         /\ holds_supplied' = FALSE
         /\ UNCHANGED supplied
    ELSE UNCHANGED sessionVars

\* request() returns or raises: its frame is gone
Finish(c, res) ==
    /\ pc' = [pc EXCEPT ![c] = "done"]
    /\ result' = [result EXCEPT ![c] = res]
    /\ token' = [token EXCEPT ![c] = None]
    /\ token_expiry' = [token_expiry EXCEPT ![c] = NoExpiry]
    /\ headers' = [headers EXCEPT ![c] = NoHeaders]
    /\ params' = [params EXCEPT ![c] = NoParams]
    /\ attempt' = [attempt EXCEPT ![c] = 0]
    /\ last_error' = [last_error EXCEPT ![c] = NoError]
    /\ delay' = [delay EXCEPT ![c] = 0]

\* request() from "headers = self._get_headers(token)" to the first
\* session.request of the loop, or past the loop when range(max_retries) is empty
StartLoop_AtLeastOnce(c, tok, key, exp) ==
    /\ pc' = [pc EXCEPT ![c] = "inflight"]
    /\ token' = [token EXCEPT ![c] = tok]
    /\ token_expiry' = [token_expiry EXCEPT ![c] = exp]
    /\ headers' = [headers EXCEPT ![c] = GetHeaders(tok, key)]
    /\ params' = [params EXCEPT ![c] = FilterParams(params_arg'[c])]
    /\ attempt' = [attempt EXCEPT ![c] = 0]
    /\ n_sent' = [n_sent EXCEPT ![c] = 1]
    /\ first_sent' = [first_sent EXCEPT ![c] =
                        Sent(c, GetHeaders(tok, key), FilterParams(params_arg'[c]))]
    /\ last_sent' = [last_sent EXCEPT ![c] =
                       [headers |-> GetHeaders(tok, key),
                        params |-> FilterParams(params_arg'[c]),
                        method |-> target'[c].method,
                        url |-> Url(target'[c].path),
                        json |-> target'[c].json,
                        at |-> now, issuer_expiry |-> exp]]
    /\ UNCHANGED <<last_error, delay, result>>

StartLoop(c, tok, key, exp) ==
    IF config.max_retries > 0
    THEN /\ pc' = [pc EXCEPT ![c] = "inflight"]
         /\ token' = [token EXCEPT ![c] = tok]
         /\ token_expiry' = [token_expiry EXCEPT ![c] = exp]
         /\ headers' = [headers EXCEPT ![c] = GetHeaders(tok, key)]
         /\ params' = [params EXCEPT ![c] = FilterParams(params_arg'[c])]
         /\ attempt' = [attempt EXCEPT ![c] = 0]
         /\ n_sent' = [n_sent EXCEPT ![c] = 1]
         /\ first_sent' = [first_sent EXCEPT ![c] =
                             Sent(c, GetHeaders(tok, key),
                                  FilterParams(params_arg'[c]))]
         /\ last_sent' = [last_sent EXCEPT ![c] =
                            [headers |-> GetHeaders(tok, key),
                             params |-> FilterParams(params_arg'[c]),
                             method |-> target'[c].method,
                             url |-> Url(target'[c].path),
                             json |-> target'[c].json,
                             at |-> now, issuer_expiry |-> exp]]
         /\ UNCHANGED <<last_error, delay, result>>
    ELSE /\ Finish(c, Raised(Error("NetworkError", 0, 0)))
         /\ UNCHANGED <<n_sent, last_sent, first_sent>>

RetryOrRaise_OffByOne(c, e, d) ==
    IF attempt[c] < config.max_retries
    THEN /\ pc' = [pc EXCEPT ![c] = "sleeping"]
         /\ last_error' = [last_error EXCEPT ![c] = e]
         /\ delay' = [delay EXCEPT ![c] = d]
         /\ n_slept' = [n_slept EXCEPT ![c] = @ + 1]
         /\ UNCHANGED <<token, token_expiry, headers, params, attempt, result>>
    ELSE /\ Finish(c, Raised(e))
         /\ UNCHANGED n_slept

RetryOrRaise_GivesUpEarly(c, e, d) ==
    IF attempt[c] < config.max_retries - 2
    THEN /\ pc' = [pc EXCEPT ![c] = "sleeping"]
         /\ last_error' = [last_error EXCEPT ![c] = e]
         /\ delay' = [delay EXCEPT ![c] = d]
         /\ n_slept' = [n_slept EXCEPT ![c] = @ + 1]
         /\ UNCHANGED <<token, token_expiry, headers, params, attempt, result>>
    ELSE /\ Finish(c, Raised(e))
         /\ UNCHANGED n_slept

RetryOrRaise_RaisesEarlier(c, e, d) ==
    IF attempt[c] < config.max_retries - 1
    THEN /\ pc' = [pc EXCEPT ![c] = "sleeping"]
         /\ last_error' = [last_error EXCEPT ![c] = e]
         /\ delay' = [delay EXCEPT ![c] = d]
         /\ n_slept' = [n_slept EXCEPT ![c] = @ + 1]
         /\ UNCHANGED <<token, token_expiry, headers, params, attempt, result>>
    ELSE /\ Finish(c, Raised(IF last_error[c] = NoError
                             THEN Error("NetworkError", 0, 0) ELSE last_error[c]))
         /\ UNCHANGED n_slept

\* The two except clauses of the loop: remember the error, then sleep and
\* continue when attempts remain, else raise
RetryOrRaise(c, e, d) ==
    IF attempt[c] < config.max_retries - 1
    THEN /\ pc' = [pc EXCEPT ![c] = "sleeping"]
         /\ last_error' = [last_error EXCEPT ![c] = e]
         /\ delay' = [delay EXCEPT ![c] = d]
         /\ n_slept' = [n_slept EXCEPT ![c] = @ + 1]
         /\ UNCHANGED <<token, token_expiry, headers, params, attempt, result>>
    ELSE /\ Finish(c, Raised(e))
         /\ UNCHANGED n_slept

----------------------------------------------------------------------------
\* Actions

\* request(): _get_session, _ensure_token, headers, and the first dispatch
Request(c, key, p, t) ==
    /\ pc[c] = "idle"
    /\ idempotency_key' = [idempotency_key EXCEPT ![c] = key]
    /\ params_arg' = [params_arg EXCEPT ![c] = p]
    /\ target' = [target EXCEPT ![c] = t]
    /\ start' = [start EXCEPT ![c] = [at |-> now, access_token |-> access_token,
                                      token_expires_at |-> token_expires_at]]
    /\ GetSession
    /\ CASE TokenSource = "cache" ->
            /\ StartLoop(c, access_token, key, issuer_expiry)
            /\ UNCHANGED fetches
         [] TokenSource = "api_key" ->
            /\ StartLoop(c, config.api_key, key, NoExpiry)
            /\ UNCHANGED fetches
         [] TokenSource = "fetch" ->
            /\ pc' = [pc EXCEPT ![c] = "token_fetch"]
            /\ fetches' = [fetches EXCEPT ![c] = @ + 1]
            /\ UNCHANGED <<localVars, n_sent, last_sent, first_sent, result>>
         [] OTHER ->
            /\ Finish(c, Raised(Error("AuthenticationError", 0, 0)))
            /\ UNCHANGED <<fetches, n_sent, last_sent, first_sent>>
    /\ UNCHANGED <<config, iterVars, subVars, now, clientVars, n_slept, last_delivery,
                   token_delivery>>

TokenGranted_SendsOldCache(c, tok, expires_in) ==
    /\ pc[c] = "token_fetch"
    /\ SetToken(tok, expires_in)
    /\ last_writer' = c
    /\ token_delivery' = [token_delivery EXCEPT ![c] =
                            TokenReply(None, 200, tok, expires_in, now)]
    /\ UNCHANGED <<params_arg, target>>
    /\ StartLoop(c, access_token, idempotency_key[c], issuer_expiry)
    /\ UNCHANGED <<config, iterVars, subVars, now, sessionVars, idempotency_key, n_slept, fetches,
                   start, last_delivery>>

TokenGranted_FirstWins(c, tok, expires_in) ==
    /\ pc[c] = "token_fetch"
    /\ IF CachedTokenFresh
       THEN UNCHANGED <<access_token, token_expires_at, issuer_expiry>>
       ELSE SetToken(tok, expires_in)
    /\ last_writer' = c
    /\ token_delivery' = [token_delivery EXCEPT ![c] =
                            TokenReply(None, 200, tok, expires_in, now)]
    /\ UNCHANGED <<params_arg, target>>
    /\ StartLoop(c, access_token', idempotency_key[c], issuer_expiry')
    /\ UNCHANGED <<config, iterVars, subVars, now, sessionVars, idempotency_key, n_slept, fetches,
                   start, last_delivery>>

\* _request_token: the post completes with status 200; _ensure_token stores
\* the token and request() goes on to its loop
TokenGranted(c, tok, expires_in) ==
    /\ pc[c] = "token_fetch"
    /\ SetToken(tok, expires_in)
    /\ last_writer' = c
    /\ token_delivery' = [token_delivery EXCEPT ![c] =
                            TokenReply(None, 200, tok, expires_in, now)]
    /\ UNCHANGED <<params_arg, target>>
    /\ StartLoop(c, tok, idempotency_key[c], now + expires_in)
    /\ UNCHANGED <<config, iterVars, subVars, now, sessionVars, idempotency_key, n_slept, fetches,
                   start, last_delivery>>

\* _request_token: the post raises, or completes with a status other than 200
TokenFailed(c, d) ==
    /\ pc[c] = "token_fetch"
    /\ token_delivery' = [token_delivery EXCEPT ![c] =
                            TokenReply(d.exc, d.status, None, 0, now)]
    /\ Finish(c, Raised(IF d.exc # None THEN Error(d.exc, 0, 0)
                        ELSE Error("AuthenticationError", 0, 0)))
    /\ UNCHANGED <<config, iterVars, subVars, now, clientVars, sessionVars, idempotency_key,
                   n_sent, last_sent, n_slept, fetches, start, last_delivery,
                   params_arg, target, first_sent>>

Response_401ClearsCache(c, d) ==
    /\ pc[c] = "inflight"
    /\ last_delivery' = [last_delivery EXCEPT ![c] = d]
    /\ LET o == AttemptOutcome(d) IN
       IF o.outcome = "returned"
       THEN Finish(c, o) /\ UNCHANGED n_slept
       ELSE IF o.error.kind \in TransportExceptions
       THEN RetryOrRaise(c, Error("NetworkError", 0, 0), BackoffDelay(attempt[c]))
       ELSE IF o.error.kind = "RateLimitError"
       THEN RetryOrRaise(c, o.error, o.error.retry_after)
       ELSE IF o.error.kind = "ServerError"
       THEN RetryOrRaise(c, o.error, BackoffDelay(attempt[c]))
       ELSE Finish(c, o) /\ UNCHANGED n_slept
    /\ IF d.exc = None /\ d.status = 401
       THEN /\ access_token' = None
            /\ token_expires_at' = 0
            /\ UNCHANGED <<issuer_expiry, last_writer>>
       ELSE UNCHANGED clientVars
    /\ UNCHANGED <<config, iterVars, subVars, now, sessionVars, idempotency_key,
                   n_sent, last_sent, fetches, start, params_arg, target, first_sent,
                   token_delivery>>

Response_RetryAll(c, d) ==
    /\ pc[c] = "inflight"
    /\ last_delivery' = [last_delivery EXCEPT ![c] = d]
    /\ LET o == AttemptOutcome(d) IN
       IF o.outcome = "returned"
       THEN Finish(c, o) /\ UNCHANGED n_slept
       ELSE IF o.error.kind \in TransportExceptions
       THEN RetryOrRaise(c, Error("NetworkError", 0, 0), BackoffDelay(attempt[c]))
       ELSE IF o.error.kind = "RateLimitError"
       THEN RetryOrRaise(c, o.error, o.error.retry_after)
       ELSE RetryOrRaise(c, o.error, BackoffDelay(attempt[c]))
    /\ UNCHANGED <<config, iterVars, subVars, now, clientVars, sessionVars, idempotency_key,
                   n_sent, last_sent, fetches, start, params_arg, target, first_sent,
                   token_delivery>>

\* One attempt of the loop completes
Response(c, d) ==
    /\ pc[c] = "inflight"
    /\ last_delivery' = [last_delivery EXCEPT ![c] = d]
    /\ LET o == AttemptOutcome(d) IN
       IF o.outcome = "returned"
       THEN Finish(c, o) /\ UNCHANGED n_slept
       ELSE IF o.error.kind \in TransportExceptions
       THEN RetryOrRaise(c, Error("NetworkError", 0, 0), BackoffDelay(attempt[c]))
       ELSE IF o.error.kind = "RateLimitError"
       THEN RetryOrRaise(c, o.error, o.error.retry_after)
       ELSE IF o.error.kind = "ServerError"
       THEN RetryOrRaise(c, o.error, BackoffDelay(attempt[c]))
       ELSE Finish(c, o) /\ UNCHANGED n_slept
    /\ UNCHANGED <<config, iterVars, subVars, now, clientVars, sessionVars, idempotency_key,
                   n_sent, last_sent, fetches, start, params_arg, target, first_sent,
                   token_delivery>>

Wake_ReadsTokenCache(c) ==
    /\ pc[c] = "sleeping"
    /\ now' = IF delay[c] > 0 THEN now + delay[c] ELSE now
    /\ attempt' = [attempt EXCEPT ![c] = @ + 1]
    /\ pc' = [pc EXCEPT ![c] = "inflight"]
    /\ n_sent' = [n_sent EXCEPT ![c] = @ + 1]
    /\ last_sent' = [last_sent EXCEPT ![c] =
                       [headers |-> GetHeaders(access_token, idempotency_key[c]),
                        params |-> params[c],
                        method |-> target[c].method,
                        url |-> Url(target[c].path),
                        json |-> target[c].json,
                        at |-> now', issuer_expiry |-> token_expiry[c]]]
    /\ UNCHANGED <<config, iterVars, subVars, clientVars, sessionVars, idempotency_key, token,
                   token_expiry, headers, params, last_error, delay, n_slept,
                   fetches, start, last_delivery, params_arg, target, first_sent,
                   token_delivery, result>>

Wake_RebuildsHeaders(c) ==
    /\ pc[c] = "sleeping"
    /\ now' = IF delay[c] > 0 THEN now + delay[c] ELSE now
    /\ attempt' = [attempt EXCEPT ![c] = @ + 1]
    /\ pc' = [pc EXCEPT ![c] = "inflight"]
    /\ n_sent' = [n_sent EXCEPT ![c] = @ + 1]
    /\ last_sent' = [last_sent EXCEPT ![c] =
                       [headers |-> GetHeaders(token[c], None),
                        params |-> params[c],
                        method |-> target[c].method,
                        url |-> Url(target[c].path),
                        json |-> target[c].json, at |-> now',
                        issuer_expiry |-> token_expiry[c]]]
    /\ UNCHANGED <<config, iterVars, subVars, clientVars, sessionVars, idempotency_key, token,
                   token_expiry, headers, params, last_error, delay, n_slept,
                   fetches, start, last_delivery, params_arg, target, first_sent, token_delivery,
                   result>>

\* asyncio.sleep(delay) ends; "continue" dispatches the next attempt
Wake(c) ==
    /\ pc[c] = "sleeping"
    /\ now' = IF delay[c] > 0 THEN now + delay[c] ELSE now
    /\ attempt' = [attempt EXCEPT ![c] = @ + 1]
    /\ pc' = [pc EXCEPT ![c] = "inflight"]
    /\ n_sent' = [n_sent EXCEPT ![c] = @ + 1]
    /\ last_sent' = [last_sent EXCEPT ![c] =
                       [headers |-> headers[c], params |-> params[c],
                        method |-> target[c].method,
                        url |-> Url(target[c].path),
                        json |-> target[c].json,
                        at |-> now', issuer_expiry |-> token_expiry[c]]]
    /\ UNCHANGED <<config, iterVars, subVars, clientVars, sessionVars, idempotency_key, token,
                   token_expiry, headers, params, last_error, delay, n_slept,
                   fetches, start, last_delivery, params_arg, target, first_sent, token_delivery,
                   result>>

\* The caller has the result of the call; the slot is free for the next call
Forget(c) ==
    /\ pc[c] = "done"
    /\ pc' = [pc EXCEPT ![c] = "idle"]
    /\ idempotency_key' = [idempotency_key EXCEPT ![c] = None]
    /\ n_sent' = [n_sent EXCEPT ![c] = 0]
    /\ last_sent' = [last_sent EXCEPT ![c] = NoSent]
    /\ n_slept' = [n_slept EXCEPT ![c] = 0]
    /\ fetches' = [fetches EXCEPT ![c] = 0]
    /\ start' = [start EXCEPT ![c] = NoStart]
    /\ last_delivery' = [last_delivery EXCEPT ![c] = NoDelivery]
    /\ params_arg' = [params_arg EXCEPT ![c] = NoParams]
    /\ target' = [target EXCEPT ![c] = NoTarget]
    /\ first_sent' = [first_sent EXCEPT ![c] = NoFirstSent]
    /\ token_delivery' = [token_delivery EXCEPT ![c] = NoTokenReply]
    /\ result' = [result EXCEPT ![c] = NoResult]
    /\ UNCHANGED <<config, iterVars, subVars, now, clientVars, sessionVars, localVars>>

\* The caller supplies a token: set_access_token(token, expires_in)
SetAccessToken(tok, expires_in) ==
    /\ SetToken(tok, expires_in)
    /\ last_writer' = Caller
    /\ UNCHANGED <<config, iterVars, subVars, now, sessionVars, pc, idempotency_key, localVars,
                   historyVars, result>>

Close_DropsWithoutClosing ==
    /\ IF session # "None" /\ owned_session
       THEN /\ session' = "None"
            /\ holds_supplied' = FALSE
            /\ UNCHANGED <<sessions_open, supplied>>
       ELSE UNCHANGED <<session, sessions_open, supplied, holds_supplied>>
    /\ UNCHANGED <<config, iterVars, subVars, now, clientVars, owned_session, sessions_created,
                   pc, idempotency_key, localVars, historyVars, result>>

Close_ClosesAnySession ==
    /\ IF session # "None"
       THEN /\ session' = "None"
            /\ holds_supplied' = FALSE
            /\ IF holds_supplied
               THEN /\ supplied' = IF supplied = "open"
                                    THEN "closed_by_client" ELSE supplied
                    /\ UNCHANGED sessions_open
               ELSE /\ sessions_open' = IF session = "open"
                                         THEN sessions_open - 1 ELSE sessions_open
                    /\ UNCHANGED supplied
       ELSE UNCHANGED <<session, sessions_open, supplied, holds_supplied>>
    /\ UNCHANGED <<config, iterVars, subVars, now, clientVars, owned_session, sessions_created,
                   pc, idempotency_key, localVars, historyVars, result>>

\* close(): closes the session _session refers to, whichever it is, when
\* the _owned_session flag is set
Close ==
    /\ IF session # "None" /\ owned_session
       THEN /\ session' = "None"
            /\ holds_supplied' = FALSE
            /\ IF holds_supplied
               THEN /\ supplied' = IF supplied = "open"
                                    THEN "closed_by_client" ELSE supplied
                    /\ UNCHANGED sessions_open
               ELSE /\ sessions_open' = IF session = "open"
                                         THEN sessions_open - 1 ELSE sessions_open
                    /\ UNCHANGED supplied
       ELSE UNCHANGED <<session, sessions_open, supplied, holds_supplied>>
    /\ UNCHANGED <<config, iterVars, subVars, now, clientVars, owned_session, sessions_created,
                   pc, idempotency_key, localVars, historyVars, result>>

\* The owner of the session given at construction closes it
OwnerClosesSession ==
    /\ supplied = "open"
    /\ supplied' = "closed"
    /\ IF holds_supplied THEN session' = "closed" ELSE UNCHANGED session
    /\ UNCHANGED <<config, iterVars, subVars, now, clientVars, owned_session, sessions_created,
                   sessions_open, holds_supplied, pc, idempotency_key,
                   localVars, historyVars, result>>

\* The clock advances
Tick ==
    /\ now + TickStep <= MaxTime
    /\ now' = now + TickStep
    /\ UNCHANGED <<config, iterVars, subVars, clientVars, sessionVars, pc, idempotency_key,
                   localVars, historyVars, result>>

Quiescent == \A c \in Calls : pc[c] = "idle"

\* The caller runs one call at a time and touches the client between calls.
CallerRequests(c, key, p, t) ==
    Quiescent /\ now <= MaxTime /\ Request(c, key, p, t)
\* the caller has called close() and the client holds no session
ClosedByCaller == sessions_created > 0 /\ session = "None"
\* a caller that passes no params and does not use a client it has closed
CallerUses(c, key) ==
    ~ClosedByCaller /\ CallerRequests(c, key, NoParams, GetAccounts)
CallerSetsToken(tok, expires_in) == Quiescent /\ SetAccessToken(tok, expires_in)
CallerCloses == Quiescent /\ Close
OwnerCloses == Quiescent /\ OwnerClosesSession

Next ==
    \/ \E c \in SeqCalls, key \in IdempotencyKeys : CallerUses(c, key)
    \/ \E c \in SeqCalls, tok \in IssuedTokens, e \in ExpiresInValues : TokenGranted(c, tok, e)
    \/ \E c \in SeqCalls, d \in TokenDeliveries : TokenFailed(c, d)
    \/ \E c \in SeqCalls, d \in Deliveries : Response(c, d)
    \/ \E c \in SeqCalls : Wake(c)
    \/ \E c \in SeqCalls : Forget(c)
    \/ \E tok \in ExternalTokens, e \in ExpiresInValues : CallerSetsToken(tok, e)
    \/ CallerCloses
    \/ Tick

Spec == Init /\ [][Next]_vars

\* The caller's side: any params, and a client used again after close().
\* One call at a time; the transport answers from CallerDeliveries.
CallerNext ==
    \/ \E c \in SeqCalls, a \in CallArguments : CallerRequests(c, a[1], a[2], a[3])
    \/ \E c \in SeqCalls, tok \in IssuedTokens, e \in ExpiresInValues : TokenGranted(c, tok, e)
    \/ \E c \in SeqCalls, d \in TokenDeliveries : TokenFailed(c, d)
    \/ \E c \in SeqCalls, d \in CallerDeliveries : Response(c, d)
    \/ \E c \in SeqCalls : Wake(c)
    \/ \E c \in SeqCalls : Forget(c)
    \/ CallerCloses
    \/ OwnerCloses

CallerInit ==
    /\ \E s \in SuppliedSessions : Construct(s)
    /\ NoIteration
    /\ EmptyServer
    /\ NoSubscription

SpecCaller == CallerInit /\ [][CallerNext]_vars

\* Concurrent calls on one client with client credentials and no api_key:
\* request() coroutines of one event loop, interleaved at their awaits.
\* Each coroutine runs one call.
ConcInit ==
    /\ Init
    /\ config.api_key = None
    /\ HasClientCredentials
    /\ config.max_retries \in {1, 2}

ConcurrentRequest(c) == now <= MaxTime /\ Request(c, None, NoParams, GetAccounts)

ConcNext ==
    \/ \E c \in Calls : ConcurrentRequest(c)
    \/ \E c \in Calls, tok \in IssuedTokens, e \in ExpiresInValues : TokenGranted(c, tok, e)
    \/ \E c \in Calls, d \in ConcTokenDeliveries : TokenFailed(c, d)
    \/ \E c \in Calls, d \in ConcDeliveries : Response(c, d)
    \/ \E c \in Calls : Wake(c)

SpecConc == ConcInit /\ [][ConcNext]_vars

\* Successive calls on one client: a call starts when the one before it has
\* returned or raised, and what each call did is kept.
NextCallStarts(c) ==
    /\ \A d \in Calls : d < c => pc[d] = "done"
    /\ now <= MaxTime
    /\ Request(c, None, NoParams, GetAccounts)

SuccNext ==
    \/ \E c \in Calls : NextCallStarts(c)
    \/ \E c \in Calls, tok \in IssuedTokens, e \in ExpiresInValues : TokenGranted(c, tok, e)
    \/ \E c \in Calls, d \in ConcTokenDeliveries : TokenFailed(c, d)
    \/ \E c \in Calls, d \in SuccDeliveries : Response(c, d)
    \/ \E c \in Calls : Wake(c)
    \/ \E tok \in ExternalTokens, e \in ExpiresInValues : CallerSetsToken(tok, e)
    \/ Tick

SpecSucc == Init /\ [][SuccNext]_vars

\* TransactionsResource.iterate. list() is taken by its two outcomes: it
\* returns the page of the response, or it raises what request() raised.
Min(a, b) == IF a < b THEN a ELSE b

\* the item the server holds at position i; every other item has no amount
RawItem(i) == IF i % 2 = 0 THEN [id |-> i, amount |-> "5.00"] ELSE [id |-> i]
ServerLists == {[i \in 1..n |-> RawItem(i)] : n \in 0..MaxTransactions}

\* Transaction.from_dict: id is taken, a missing amount becomes "0"
FromDict(item) ==
    [id |-> item.id,
     amount |-> IF "amount" \in DOMAIN item THEN item.amount ELSE "0"]

\* the response data for limit lim and offset off: at most lim and at most
\* page_cap items of the list from position off
ServerData(off, lim) ==
    LET n == Len(server_transactions)
        last == Min(off + Min(lim, page_cap), n)
    IN [transactions |-> IF off < n
                         THEN SubSeq(server_transactions, off + 1, last)
                         ELSE <<>>]
\* a response without a transactions entry
DataWithoutTransactions == [total |-> 0]

\* list(): the transactions of data, converted; none when data has no entry
ListResult(data) ==
    LET items == IF "transactions" \in DOMAIN data THEN data.transactions ELSE <<>>
    IN [i \in 1..Len(items) |-> FromDict(items[i])]

\* iterate(limit=lim) and the first step of the generator, up to list()
Iterate(lim) ==
    /\ iter_pc = "idle"
    /\ limit' = lim
    /\ offset' = 0
    /\ requested' = <<0>>
    /\ iter_pc' = "awaiting_list"
    /\ UNCHANGED <<transactions, tx_index, yielded, pages, server_transactions,
                   page_cap>>
    /\ UNCHANGED <<httpVars, subVars>>

\* list() returns: an empty page ends the generator, else the first
\* transaction is yielded
ListReturns(data) ==
    /\ iter_pc = "awaiting_list"
    /\ LET page == ListResult(data) IN
       /\ transactions' = page
       /\ pages' = Append(pages, page)
       /\ IF page = <<>>
          THEN /\ iter_pc' = "exhausted"
               /\ UNCHANGED <<tx_index, yielded>>
          ELSE /\ iter_pc' = "suspended"
               /\ tx_index' = 1
               /\ yielded' = Append(yielded, page[1])
    /\ UNCHANGED <<limit, offset, requested, server_transactions, page_cap>>
    /\ UNCHANGED <<httpVars, subVars>>

\* list() raises: the generator raises
ListRaises ==
    /\ iter_pc = "awaiting_list"
    /\ iter_pc' = "raised"
    /\ UNCHANGED <<limit, offset, transactions, tx_index, yielded, requested,
                   pages, server_transactions, page_cap>>
    /\ UNCHANGED <<httpVars, subVars>>

\* the short page test is taken for a page of exactly limit items too
Resume_StopsAfterFullPage ==
    /\ iter_pc = "suspended"
    /\ IF tx_index < Len(transactions)
       THEN /\ tx_index' = tx_index + 1
            /\ yielded' = Append(yielded, transactions[tx_index + 1])
            /\ UNCHANGED <<iter_pc, offset, requested>>
       ELSE IF Len(transactions) <= limit
       THEN /\ iter_pc' = "exhausted"
            /\ UNCHANGED <<tx_index, yielded, offset, requested>>
       ELSE /\ offset' = offset + limit
            /\ requested' = Append(requested, offset + limit)
            /\ iter_pc' = "awaiting_list"
            /\ UNCHANGED <<tx_index, yielded>>
    /\ UNCHANGED <<limit, transactions, pages, server_transactions, page_cap>>
    /\ UNCHANGED <<httpVars, subVars>>

\* the consumer asks for the next item: the generator goes on after its
\* yield, to the next yield, to its end or to the next list()
Resume ==
    /\ iter_pc = "suspended"
    /\ IF tx_index < Len(transactions)
       THEN /\ tx_index' = tx_index + 1
            /\ yielded' = Append(yielded, transactions[tx_index + 1])
            /\ UNCHANGED <<iter_pc, offset, requested>>
       ELSE IF Len(transactions) < limit
       THEN /\ iter_pc' = "exhausted"
            /\ UNCHANGED <<tx_index, yielded, offset, requested>>
       ELSE /\ offset' = offset + limit
            /\ requested' = Append(requested, offset + limit)
            /\ iter_pc' = "awaiting_list"
            /\ UNCHANGED <<tx_index, yielded>>
    /\ UNCHANGED <<limit, transactions, pages, server_transactions, page_cap>>
    /\ UNCHANGED <<httpVars, subVars>>

IterateNext ==
    \/ \E lim \in 1..MaxLimit : Iterate(lim)
    \/ ListReturns(ServerData(offset, limit))
    \/ ListReturns(DataWithoutTransactions)
    \/ ListRaises
    \/ Resume

\* a client with an api key, and a server with a list of transactions
IterateInit ==
    /\ Construct("None")
    /\ config.api_key # None
    /\ config.max_retries = MaxRetriesBound
    /\ NoIteration
    /\ NoSubscription
    /\ server_transactions \in ServerLists
    /\ page_cap \in 1..MaxLimit

\* the consumer goes on asking and every list() call ends
SpecIterate == IterateInit /\ [][IterateNext]_vars /\ WF_vars(IterateNext)

\* Subscription. The websocket and the server are the environment: messages
\* arrive while the connection is open or closing, and the iteration over
\* the websocket hands them over in arrival order.
EventTypes == {"transaction.created", "balance.updated"}
\* the type entry of a message; "malformed" is a message json.loads rejects
MessageTypes == EventTypes \cup {"consent.revoked", "malformed"}
HandlerSets == {{}, {"transaction.created"}, EventTypes}

\* subscribe(): connects, creates the Subscription and the task of
\* _process_messages, and returns without the task having run
Subscribe(hs) ==
    /\ sub_pc = "none"
    /\ handlers' = hs
    /\ ws' = "open"
    /\ running' = FALSE
    /\ sub_pc' = "created"
    /\ UNCHANGED <<inbox, n_arrived, close_called, invocations>>
    /\ UNCHANGED <<httpVars, iterVars>>

\* the websocket receives a message
MessageArrives(t) ==
    /\ ws \in {"open", "closing"}
    /\ n_arrived < MaxMessages
    /\ n_arrived' = n_arrived + 1
    /\ inbox' = Append(inbox, [id |-> n_arrived + 1, type |-> t])
    /\ UNCHANGED <<sub_pc, running, handlers, ws, close_called, invocations>>
    /\ UNCHANGED <<httpVars, iterVars>>

\* the task runs for the first time, up to the iteration over the websocket
TaskStarts ==
    /\ sub_pc = "created"
    /\ running' = TRUE
    /\ sub_pc' = "waiting"
    /\ UNCHANGED <<handlers, ws, inbox, n_arrived, close_called, invocations>>
    /\ UNCHANGED <<httpVars, iterVars>>

\* the iteration hands over a message: the loop body up to await handler(event)
TakeMessage ==
    /\ sub_pc = "waiting"
    /\ inbox # <<>>
    /\ inbox' = Tail(inbox)
    /\ LET message == Head(inbox) IN
       IF ~running
       THEN sub_pc' = "ended" /\ UNCHANGED invocations
       ELSE IF message.type = "malformed"
       THEN sub_pc' = "raised" /\ UNCHANGED invocations
       ELSE IF message.type \in handlers
       THEN /\ sub_pc' = "handling"
            /\ invocations' = Append(invocations,
                   [id |-> message.id, type |-> message.type,
                    taken_after_close |-> close_called, finished |-> FALSE])
       ELSE UNCHANGED <<sub_pc, invocations>>
    /\ UNCHANGED <<running, handlers, ws, n_arrived, close_called>>
    /\ UNCHANGED <<httpVars, iterVars>>

\* the handler returns (ok) or raises
HandlerEnds(ok) ==
    /\ sub_pc = "handling"
    /\ sub_pc' = IF ok THEN "waiting" ELSE "raised"
    /\ invocations' = [invocations EXCEPT ![Len(invocations)].finished = TRUE]
    /\ UNCHANGED <<running, handlers, ws, inbox, n_arrived, close_called>>
    /\ UNCHANGED <<httpVars, iterVars>>

\* the iteration ends: the connection is closed and nothing is left
IterationEnds ==
    /\ sub_pc = "waiting"
    /\ inbox = <<>>
    /\ ws = "closed"
    /\ sub_pc' = "ended"
    /\ UNCHANGED <<running, handlers, ws, inbox, n_arrived, close_called, invocations>>
    /\ UNCHANGED <<httpVars, iterVars>>

\* Subscription.close() up to its await of ws.close()
SubscriptionClose ==
    /\ sub_pc # "none"
    /\ ~close_called
    /\ running' = FALSE
    /\ close_called' = TRUE
    /\ ws' = IF ws = "open" THEN "closing" ELSE ws
    /\ UNCHANGED <<sub_pc, handlers, inbox, n_arrived, invocations>>
    /\ UNCHANGED <<httpVars, iterVars>>

\* the connection is closed: the closing handshake is done, or the server
\* has closed it
ConnectionCloses ==
    /\ ws \in {"open", "closing"}
    /\ ws' = "closed"
    /\ UNCHANGED <<sub_pc, running, handlers, inbox, n_arrived, close_called,
                   invocations>>
    /\ UNCHANGED <<httpVars, iterVars>>

SubscriptionNext ==
    \/ \E hs \in HandlerSets : Subscribe(hs)
    \/ \E t \in MessageTypes : MessageArrives(t)
    \/ TaskStarts
    \/ TakeMessage
    \/ \E ok \in BOOLEAN : HandlerEnds(ok)
    \/ IterationEnds
    \/ SubscriptionClose
    \/ ConnectionCloses

\* a client with an api key, before subscribe()
SubscriptionInit ==
    /\ Construct("None")
    /\ config.api_key # None
    /\ config.max_retries = MaxRetriesBound
    /\ NoIteration
    /\ EmptyServer
    /\ NoSubscription

SpecSubscription == SubscriptionInit /\ [][SubscriptionNext]_vars

----------------------------------------------------------------------------
\* Vocabulary of the properties

RetryableKinds == {"NetworkError", "RateLimitError", "ServerError"}

Started(c) == pc[c] # "idle"
Done(c) == pc[c] = "done"
RaisedKind(c, k) == result[c].outcome = "raised" /\ result[c].error.kind = k

\* the attempt that completed last got an HTTP response with this status
GotStatus(c, S) == last_delivery[c].exc = None /\ last_delivery[c].status \in S

\* the token cache as the call found it when it started
StartedFresh(c) ==
    /\ start[c].access_token # None
    /\ start[c].at < start[c].token_expires_at

\* the terminal error kinds by status
TerminalKind(s) ==
    CASE s = 401 -> "AuthenticationError"
      [] s = 403 -> "AuthorizationError"
      [] s = 400 -> "ValidationError"
      [] s = 404 -> "NotFoundError"
      [] s = 409 -> "ConflictError"
      [] OTHER -> "OpeniBankError"
TerminalStatuses == {400, 401, 403, 404, 409, 202, 302}

----------------------------------------------------------------------------
C2_TerminalImmediately ==
    \A c \in Calls :
        GotStatus(c, TerminalStatuses)
        => /\ Done(c)
           /\ RaisedKind(c, TerminalKind(last_delivery[c].status))
           /\ result[c].error.status_code = last_delivery[c].status
           /\ n_slept[c] = n_sent[c] - 1

C2_Witness ==
    \E c \in Calls :
        /\ GotStatus(c, {404}) /\ Done(c)
        /\ RaisedKind(c, "NotFoundError")
        /\ n_sent[c] = 2 /\ n_slept[c] = 1 /\ config.max_retries = 3

\* C3 as stated: whenever a key is supplied (not None), every dispatched
\* attempt carries it in Idempotency-Key.
C3_AnyKeyForwarded ==
    \A c \in Calls :
        (n_sent[c] >= 1 /\ idempotency_key[c] # None)
        => last_sent[c].headers.IdempotencyKey = idempotency_key[c]

\* C3 amended: whenever a non-empty key is supplied, every dispatched
\* attempt, the first and each retry, carries it unchanged in Idempotency-Key.
C3_NonEmptyKeyForwarded ==
    \A c \in Calls :
        (n_sent[c] >= 1 /\ idempotency_key[c] # None /\ idempotency_key[c] # "")
        => last_sent[c].headers.IdempotencyKey = idempotency_key[c]

C3_Witness ==
    \E c \in Calls :
        /\ pc[c] = "inflight" /\ n_sent[c] = 3
        /\ idempotency_key[c] = "idem-1"
        /\ last_sent[c].headers.IdempotencyKey = "idem-1"

\* C4: on a client with client_id and client_secret and no api_key, a call
\* that starts while a token is cached and the clock is before its
\* expires_at dispatches no token request, and a call that starts with no
\* token or at or after expires_at dispatches exactly one.
C4_OneFetchPerStaleness ==
    \A c \in Calls :
        (Started(c) /\ config.api_key = None
         /\ config.client_id # "" /\ config.client_secret # "")
        => fetches[c] = IF StartedFresh(c) THEN 0 ELSE 1

\* the second of two calls: it found the token an earlier call fetched,
\* still before expires_at, and fetched nothing
C4_Witness ==
    \E c \in Calls :
        /\ Started(c) /\ config.api_key = None
        /\ config.client_id # "" /\ config.client_secret # ""
        /\ start[c].access_token \in IssuedTokens
        /\ start[c].at > 0 /\ start[c].at < start[c].token_expires_at
        /\ fetches[c] = 0 /\ n_sent[c] = 1

\* C5 as stated: no attempt, first or retry, is dispatched with a cached
\* bearer token after the token's issuer-declared expiry.
C5_NoExpiredTokenSent ==
    \A c \in Calls :
        (n_sent[c] >= 1 /\ last_sent[c].issuer_expiry # NoExpiry)
        => last_sent[c].at <= last_sent[c].issuer_expiry

\* C6 as stated: every error request() raises is one of the typed errors.
C6_OnlyTypedErrors ==
    \A c \in Calls :
        (Done(c) /\ result[c].outcome = "raised")
        => result[c].error.kind \in TypedErrors

\* C7: a call that starts on a client with no api_key and without both
\* client_id and client_secret, and finds no unexpired cached token, is
\* finished at once with AuthenticationError, and has dispatched neither a
\* token request nor an attempt.
C7_NoCredentials ==
    \A c \in Calls :
        (Started(c) /\ config.api_key = None
         /\ (config.client_id = "" \/ config.client_secret = "")
         /\ ~StartedFresh(c))
        => /\ Done(c)
           /\ RaisedKind(c, "AuthenticationError")
           /\ fetches[c] = 0 /\ n_sent[c] = 0

C7_Witness ==
    \E c \in Calls :
        /\ Done(c) /\ config.api_key = None
        /\ config.client_id # "" /\ config.client_secret = ""
        /\ start[c].access_token = "ext"
        /\ start[c].at >= start[c].token_expires_at
        /\ RaisedKind(c, "AuthenticationError")

\* C8 as stated: the error of an attempt answered with a non-success status
\* is the kind the table gives for that status: 401, 403, 400, 404, 409 as
\* in C2, 429 RateLimitError, 500 and above ServerError, every other
\* status the generic error.
StatusKindTable(s) ==
    IF s = 429 THEN "RateLimitError"
    ELSE IF s >= 500 THEN "ServerError"
    ELSE TerminalKind(s)

C8_KindByStatus ==
    \A c \in Calls :
        (GotStatus(c, (ErrorStatuses \cup {429, 503})) /\ pc[c] \in {"sleeping", "done"})
        => IF Done(c)
           THEN RaisedKind(c, StatusKindTable(last_delivery[c].status))
           ELSE last_error[c].kind = StatusKindTable(last_delivery[c].status)

\* C9: when an attempt is answered with 200, 201 or 204 the call is
\* finished: it returned that response's payload (the empty mapping for
\* 204), the attempts dispatched are at most max_retries, one sleep preceded
\* each attempt but the first, and none followed.
C9_FirstSuccessReturns ==
    \A c \in Calls :
        GotStatus(c, {200, 201, 204})
        => /\ Done(c)
           /\ result[c] = Returned(IF last_delivery[c].status = 204
                                   THEN EmptyDict ELSE last_delivery[c].body)
           /\ n_sent[c] <= config.max_retries
           /\ n_slept[c] = n_sent[c] - 1

C9_Witness ==
    \E c \in Calls :
        /\ GotStatus(c, {201}) /\ Done(c)
        /\ result[c] = Returned("p2")
        /\ n_sent[c] = 2 /\ n_slept[c] = 1 /\ config.max_retries = 3

\* C10 as stated: the sleep after a 429 that is not the last attempt lasts
\* the Retry-After value v for every numeric v >= 0, and 60 seconds when the
\* header is absent.
C10_SleepsRetryAfter ==
    \A c \in Calls :
        (pc[c] = "sleeping" /\ GotStatus(c, {429})
         /\ (last_delivery[c].retry_after.numeric \/ ~last_delivery[c].retry_after.present))
        => delay[c] = IF last_delivery[c].retry_after.present
                      THEN last_delivery[c].retry_after.value
                      ELSE 60

\* the attempt that completed last failed in transport or with a status >= 500
GotTransportOrServerFailure(c) ==
    \/ last_delivery[c].exc \in TransportExceptions
    \/ last_delivery[c].exc = None /\ last_delivery[c].status >= 500

\* C11: a call that sleeps after a transport failure or a ServerError on its
\* attempt with 0-based index i has i < max_retries - 1 and sleeps exactly
\* retry_delay * 2^i, where i counts every attempt dispatched before,
\* whatever made it fail (a Retry-After header of the 5xx response is not
\* used); and the clock has moved on by that delay when the next attempt is
\* dispatched.
C11_BackoffByAttemptIndex ==
    \A c \in Calls :
        /\ (pc[c] = "sleeping" /\ GotTransportOrServerFailure(c))
           => /\ n_sent[c] - 1 < config.max_retries - 1
              /\ delay[c] = config.retry_delay * (2 ^ (n_sent[c] - 1))
        /\ (pc[c] = "inflight" /\ GotTransportOrServerFailure(c))
           => last_sent[c].at >= start[c].at + config.retry_delay * (2 ^ (n_sent[c] - 2))

\* the second attempt failed with a 5xx after the first was rate limited
\* for 45 seconds; the sleep is retry_delay * 2
C11_Witness ==
    \E c \in Calls :
        /\ pc[c] = "sleeping" /\ n_sent[c] = 2
        /\ GotStatus(c, {503})
        /\ last_sent[c].at = start[c].at + 45
        /\ delay[c] = 2 * config.retry_delay

\* what the failure of a retryable delivery is: its kind and status code
FailureOf(d) ==
    IF d.exc \in TransportExceptions THEN [kind |-> "NetworkError", status_code |-> 0]
    ELSE IF d.status = 429 THEN [kind |-> "RateLimitError", status_code |-> 429]
    ELSE [kind |-> "ServerError", status_code |-> d.status]

C13_SuccessStep ==
    \A c \in Calls :
        /\ (pc[c] = "inflight" /\ pc'[c] # "inflight"
            /\ last_delivery'[c].exc = None
            /\ last_delivery'[c].status \in {200, 201, 204})
           => /\ pc'[c] = "done"
              /\ result'[c].outcome = "returned"
              /\ result'[c].payload # None
              /\ result'[c].payload = IF last_delivery'[c].status = 204
                                      THEN EmptyDict ELSE last_delivery'[c].body
              /\ n_sent'[c] = n_sent[c] /\ n_slept'[c] = n_slept[c]
              /\ now' = now
        /\ pc[c] = "done" => pc'[c] \in {"done", "idle"}

C13_SuccessReturns == [][C13_SuccessStep]_vars

C13_Witness ==
    \E c \in Calls :
        /\ Done(c) /\ GotStatus(c, {204})
        /\ result[c] = Returned(EmptyDict)
        /\ n_sent[c] = 1 /\ n_slept[c] = 0

\* C14: on every attempt of a call given a params mapping, the query
\* parameters sent are the entries of the mapping whose value is not None,
\* each with its value unchanged (0, False and "" included), and no others.
C14_NonNullParamsSent ==
    \A c \in Calls :
        (n_sent[c] >= 1 /\ params_arg[c].given)
        => /\ last_sent[c].params.given
           /\ \A k \in ParamKeys :
                 last_sent[c].params.entries[k] =
                    IF params_arg[c].entries[k] = None
                    THEN Absent ELSE params_arg[c].entries[k]

\* a retry of a call given {status: None, limit: 0, q: ""} sends limit and q
C14_Witness ==
    \E c \in Calls :
        /\ n_sent[c] = 2 /\ pc[c] = "inflight"
        /\ params_arg[c] = Mapping(None, "0", "")
        /\ last_sent[c].params = Mapping(Absent, "0", "")

\* the call has dispatched, and its last attempt carried this bearer token
SentWith(c, tok) ==
    n_sent[c] >= 1 /\ last_sent[c].headers.Authorization = <<"Bearer", tok>>

\* C15: a token t stored by set_access_token(t, e) at time s expires in the
\* cache at s + e - 60. A call that starts while t is cached and the clock
\* is before that instant fetches no token and sends t as the bearer token
\* of every attempt, whatever api_key and client credentials are
\* configured; a call that starts at or after that instant never sends t.
C15_SetTokenUsedUntilExpiry ==
    /\ (last_writer = Caller)
       => /\ access_token \in ExternalTokens
          /\ token_expires_at = issuer_expiry - 60
    /\ \A c \in Calls :
          (Started(c) /\ start[c].access_token \in ExternalTokens)
          => IF start[c].at < start[c].token_expires_at
             THEN /\ fetches[c] = 0
                  /\ pc[c] # "token_fetch"
                  /\ n_sent[c] >= 1 => SentWith(c, start[c].access_token)
             ELSE ~SentWith(c, start[c].access_token)

\* with an api_key and client credentials configured, a retry carries the
\* token the caller set
C15_Witness ==
    \E c \in Calls :
        /\ config.api_key # None /\ config.client_id # ""
        /\ start[c].access_token = "ext"
        /\ start[c].at > 0 /\ start[c].at < start[c].token_expires_at
        /\ n_sent[c] = 2 /\ SentWith(c, "ext") /\ fetches[c] = 0

\* C16: a call that starts with an api_key configured and no unexpired
\* cached token fetches no token, also when client credentials are
\* configured; every attempt carries the api_key as its bearer token; and
\* the cached token and its expiry stay as the call found them.
C16_ApiKeyUsedUncached ==
    \A c \in Calls :
        (Started(c) /\ config.api_key # None /\ ~StartedFresh(c))
        => /\ fetches[c] = 0
           /\ pc[c] # "token_fetch"
           /\ n_sent[c] >= 1 => SentWith(c, config.api_key)
           /\ pc[c] \in {"inflight", "sleeping"} => token[c] = config.api_key
           /\ access_token = start[c].access_token
           /\ token_expires_at = start[c].token_expires_at

\* api_key and client credentials, an expired cached token: the api_key is
\* sent and the expired token stays cached
C16_Witness ==
    \E c \in Calls :
        /\ config.api_key # None /\ config.client_id # "" /\ config.client_secret # ""
        /\ start[c].access_token = "ext" /\ ~StartedFresh(c)
        /\ n_sent[c] = 2 /\ SentWith(c, config.api_key)
        /\ access_token = "ext"

\* the token endpoint answered the call's fetch with an HTTP response
TokenAnswered(c) == token_delivery[c].exc = None /\ token_delivery[c].status # 0

\* the fetch failed the call: AuthenticationError, nothing dispatched, one
\* fetch, the cache as the call found it
FetchFailedCall(c) ==
    /\ Done(c) /\ RaisedKind(c, "AuthenticationError")
    /\ n_sent[c] = 0
    /\ fetches[c] = 1
    /\ access_token = start[c].access_token
    /\ token_expires_at = start[c].token_expires_at

\* C17 as stated: a non-2xx answer of the token endpoint fails the call with
\* AuthenticationError, without an API attempt, a second fetch or a change
\* to the cache; after any 2xx answer the call has not failed with
\* AuthenticationError and a token of that fetch is cached.
C17_TwoXXCachesToken ==
    \A c \in Calls :
        TokenAnswered(c)
        => IF token_delivery[c].status \in 200..299
           THEN /\ ~RaisedKind(c, "AuthenticationError")
                /\ access_token \in IssuedTokens /\ last_writer = c
           ELSE FetchFailedCall(c)

\* C17: an answer of the token endpoint with any status other than 200
\* fails the call with AuthenticationError, without an API attempt, a second
\* fetch or a change to the cache; after an answer with status 200 the
\* token it carries is cached with expiry (time of the answer) +
\* expires_in - 60.
C17_Status200CachesToken ==
    \A c \in Calls :
        TokenAnswered(c)
        => IF token_delivery[c].status = 200
           THEN /\ access_token = token_delivery[c].access_token
                /\ token_expires_at =
                      token_delivery[c].at + token_delivery[c].expires_in - 60
                /\ fetches[c] = 1
           ELSE FetchFailedCall(c)

\* the token endpoint answers 201 while an expired token is cached
C17_Witness ==
    \E c \in Calls :
        /\ token_delivery[c].status = 201
        /\ FetchFailedCall(c)
        /\ access_token = "ext"

\* C18 as stated: the client creates a session at most once, and when it
\* holds no session none that it created is open.
C18_SessionCreatedOnce ==
    supplied = "absent"
    => /\ sessions_created <= 1
       /\ session = "None" => sessions_open = 0

\* C18: the client has at most one open session of its own at a time, the
\* one it holds; a call that is under way has one; and when close() has
\* completed and the client holds no session, none that it created is open,
\* whatever the calls before it returned or raised.
C18_OneSessionAtATime ==
    supplied = "absent"
    => /\ sessions_open <= 1
       /\ sessions_open <= sessions_created
       /\ session = "open" => (owned_session /\ sessions_open = 1)
       /\ session = "None" => sessions_open = 0
       /\ \A c \in Calls : pc[c] \notin {"idle", "done"} => session = "open"

\* the client was used again after close(), and a second close() closed
\* the second session too
C18_Witness ==
    /\ supplied = "absent"
    /\ sessions_created = 2 /\ session = "None" /\ sessions_open = 0
    /\ now > 0

\* the token endpoint granted the call's fetch a token
Granted(c) == token_delivery[c].exc = None /\ token_delivery[c].status = 200

\* C19: among concurrent calls, a call that found the cache stale and has
\* dispatched has fetched once, was granted a token, and every attempt it
\* dispatches carries that token: none carries no token, the token that
\* was stale, or the token of another call's fetch.
C19_OwnFetchedTokenSent ==
    \A c \in Calls :
        (Started(c) /\ ~StartedFresh(c))
        => /\ pc[c] \in {"inflight", "sleeping"}
              => (Granted(c) /\ token[c] = token_delivery[c].access_token)
           /\ n_sent[c] >= 1
              => /\ Granted(c) /\ fetches[c] = 1
                 /\ token_delivery[c].access_token \in IssuedTokens
                 /\ SentWith(c, token_delivery[c].access_token)

\* two calls found the cache empty; the other call's token is cached, and
\* this call retries with the token of its own fetch
C19_Witness ==
    \E c \in Calls, d \in Calls :
        /\ c # d
        /\ ~StartedFresh(c) /\ ~StartedFresh(d) /\ Granted(c) /\ Granted(d)
        /\ access_token = "tokB" /\ last_writer = d
        /\ n_sent[c] = 2 /\ SentWith(c, "tokA")

\* C20: token fetches are not coalesced. Every call that starts on a stale
\* cache issues a fetch of its own, whether or not another call's fetch is
\* under way; and when two calls have had their fetches granted, the cache
\* holds the token and the expiry of the fetch that completed last.
C20_LastFetchWins ==
    /\ \A c \in Calls :
          (Started(c) /\ ~StartedFresh(c)) => fetches[c] = 1
    /\ \A c \in Calls, d \in Calls :
          (c # d /\ Granted(c) /\ Granted(d) /\ last_writer = d)
          => /\ access_token = token_delivery[d].access_token
             /\ token_expires_at =
                   token_delivery[d].at + token_delivery[d].expires_in - 60

\* both calls started on the empty cache; the first fetch stored a token
\* that would still be fresh, the second fetch replaced it
C20_Witness ==
    \E c \in Calls, d \in Calls :
        /\ c # d
        /\ start[c].access_token = None /\ start[d].access_token = None
        /\ fetches[c] = 1 /\ fetches[d] = 1
        /\ Granted(c) /\ token_delivery[c].access_token = "tokA"
        /\ token_delivery[c].expires_in = 90
        /\ Granted(d) /\ token_delivery[d].access_token = "tokB"
        /\ token_delivery[d].at = token_delivery[c].at
        /\ last_writer = d /\ access_token = "tokB"

\* C21: in every state between two steps of the coroutines (the states
\* another call can observe), the cached token and the cached expiry are
\* the token and the expiry of one and the same write: the cache is empty
\* with expiry 0 as constructed, or some call's granted fetch wrote both.
C21_TokenAndExpiryPaired ==
    IF access_token = None
    THEN token_expires_at = 0 /\ last_writer = Nobody
    ELSE \E c \in Calls :
            /\ Granted(c)
            /\ access_token = token_delivery[c].access_token
            /\ token_expires_at =
                  token_delivery[c].at + token_delivery[c].expires_in - 60

\* two overlapping fetches: the first stored a token with the later
\* expiry, the second replaced the token and the expiry
C21_Witness ==
    \E c \in Calls, d \in Calls :
        /\ c # d /\ Granted(c) /\ Granted(d) /\ last_writer = d
        /\ start[d].access_token = None
        /\ token_delivery[c].expires_in = 90 /\ token_delivery[d].expires_in = 30
        /\ token_delivery[c].access_token # token_delivery[d].access_token
        /\ access_token = token_delivery[d].access_token
        /\ token_expires_at = token_delivery[d].at - 30

\* the state of a call in the state machine of the retry loop; a call that
\* has dispatched nothing (it is acquiring its token, or ended before any
\* attempt) is not in the machine yet
CallState(c) ==
    IF n_sent[c] = 0 \/ pc[c] \in {"idle", "token_fetch"} THEN "NotAttempting"
    ELSE IF pc[c] = "inflight" THEN "Attempting"
    ELSE IF pc[c] = "sleeping" THEN "Sleeping"
    ELSE IF result[c].outcome = "returned" THEN "Succeeded"
    ELSE IF result[c].error.kind \in RetryableKinds THEN "FailedExhausted"
    ELSE "FailedTerminal"

FinalStates == {"Succeeded", "FailedTerminal", "FailedExhausted"}

\* C22: a step that changes the state of a call in the machine is one of:
\* Attempting to Succeeded or to FailedTerminal; Attempting to Sleeping,
\* with attempts remaining; Attempting to FailedExhausted, with none
\* remaining; Sleeping to Attempting. A final state is left only when the
\* call is over and its slot is cleared. An attempt is dispatched only on
\* entering Attempting from a state that is not Attempting, one at a time.
C22_Transition(c) ==
    /\ CallState(c) = "Attempting" /\ CallState(c)' # "Attempting"
       => \/ CallState(c)' \in {"Succeeded", "FailedTerminal"}
          \/ CallState(c)' = "Sleeping" /\ n_sent[c] < config.max_retries
          \/ CallState(c)' = "FailedExhausted" /\ n_sent[c] = config.max_retries
    /\ CallState(c) = "Sleeping" /\ CallState(c)' # "Sleeping"
       => CallState(c)' = "Attempting" /\ n_sent'[c] <= config.max_retries
    /\ CallState(c) \in FinalStates /\ CallState(c)' # CallState(c)
       => CallState(c)' = "NotAttempting" /\ pc'[c] = "idle"
    /\ CallState(c) = "NotAttempting" /\ CallState(c)' # "NotAttempting"
       => CallState(c)' = "Attempting"
    /\ n_sent'[c] > n_sent[c]
       => /\ n_sent'[c] = n_sent[c] + 1
          /\ CallState(c) # "Attempting" /\ CallState(c)' = "Attempting"

C22_StateMachine == [][\A c \in Calls : C22_Transition(c)]_vars

\* a call with three attempts allowed sleeps for the second time
C22_Witness ==
    \E c \in Calls :
        /\ CallState(c) = "Sleeping"
        /\ config.max_retries = 3 /\ n_sent[c] = 2 /\ n_slept[c] = 2

\* the call has its token: from the cache, the api_key, or a granted fetch
TokenAcquired(c) ==
    StartedFresh(c) \/ config.api_key # None \/ Granted(c)

\* C23 as stated: every call with max_retries <= 0 dispatches nothing,
\* sleeps never, and ends by raising NetworkError.
C23_AlwaysNetworkError ==
    \A c \in Calls :
        (Started(c) /\ config.max_retries <= 0)
        => /\ n_sent[c] = 0 /\ n_slept[c] = 0
           /\ Done(c) => result[c] = Raised(Error("NetworkError", 0, 0))

\* C23: a call with max_retries <= 0 dispatches nothing and sleeps never.
\* Token acquisition runs first, with a fetch when the cache is stale and
\* only client credentials are configured; a granted token is cached. When
\* acquisition succeeds the call raises NetworkError, and when it fails the
\* call raises the failure of the acquisition instead.
C23_NoAttemptWithoutRetries ==
    \A c \in Calls :
        (Started(c) /\ config.max_retries <= 0)
        => /\ n_sent[c] = 0 /\ n_slept[c] = 0
           /\ pc[c] \in {"token_fetch", "done"}
           /\ (~StartedFresh(c) /\ config.api_key = None /\ HasClientCredentials)
              => fetches[c] = 1
           /\ Granted(c) => access_token = token_delivery[c].access_token
           /\ Done(c) =>
                 IF TokenAcquired(c)
                 THEN result[c] = Raised(Error("NetworkError", 0, 0))
                 ELSE /\ result[c].outcome = "raised"
                      /\ result[c].error.kind # "NetworkError"

\* max_retries = -1: the token is fetched and cached, then NetworkError
C23_Witness ==
    \E c \in Calls :
        /\ config.max_retries < 0 /\ Done(c)
        /\ fetches[c] = 1 /\ Granted(c)
        /\ access_token = token_delivery[c].access_token
        /\ n_sent[c] = 0
        /\ result[c] = Raised(Error("NetworkError", 0, 0))

\* C27: an attempt answered with a 2xx status other than 200, 201 and 204
\* ends the call: it raises OpeniBankError (the base kind, none of the
\* typed kinds) with that status code, the response is not returned, and
\* the attempt is followed by no sleep and no further attempt.
C27_Other2xxIsGenericError ==
    \A c \in Calls :
        GotStatus(c, (200..299) \ {200, 201, 204})
        => /\ Done(c)
           /\ result[c].outcome = "raised"
           /\ result[c].payload = None
           /\ result[c].error = Error("OpeniBankError", last_delivery[c].status, 0)
           /\ n_slept[c] = n_sent[c] - 1

\* the first attempt is answered 206
C27_Witness ==
    \E c \in Calls :
        /\ GotStatus(c, {206}) /\ Done(c)
        /\ n_sent[c] = 1 /\ n_slept[c] = 0 /\ config.max_retries = 3
        /\ RaisedKind(c, "OpeniBankError")

\* C24: a call fetches a token at most once, and only before its first
\* attempt; every attempt carries the Authorization value, the method and
\* URL, the query parameters and the json body of the first attempt, which
\* are those made from the call's arguments.
C24_SameRequestEveryAttempt ==
    \A c \in Calls :
        /\ fetches[c] <= 1
        /\ pc[c] = "token_fetch" => n_sent[c] = 0
        /\ n_sent[c] >= 1
           => /\ last_sent[c].headers.Authorization = first_sent[c].headers.Authorization
              /\ last_sent[c].method = first_sent[c].method
              /\ last_sent[c].url = first_sent[c].url
              /\ last_sent[c].params = first_sent[c].params
              /\ last_sent[c].json = first_sent[c].json
              /\ first_sent[c].method = target[c].method
              /\ first_sent[c].url = Url(target[c].path)
              /\ first_sent[c].json = target[c].json

\* the third attempt of a POST carries the api_key and the body again
C24_Witness ==
    \E c \in Calls :
        /\ n_sent[c] = 3 /\ pc[c] = "inflight"
        /\ target[c] = PostPayment
        /\ config.api_key # None
        /\ last_sent[c].json = "payment-1"
        /\ last_sent[c].url = Url("/payments")
        /\ last_sent[c].headers.Authorization = <<"Bearer", config.api_key>>

\* C26: no step of the client closes the session given at construction
\* while it is open. As long as that session is open the client refers to
\* it, with the _owned_session flag unset, and has created none of its own.
\* The client's reference is cleared only when it holds no session of the
\* caller's: its own sessions are all closed then, and a session given at
\* construction has been closed by its owner and replaced before.
C26_SuppliedSessionLeftOpen ==
    /\ supplied # "closed_by_client"
    /\ holds_supplied => (~owned_session /\ session # "None")
    /\ supplied = "open"
       => (holds_supplied /\ session = "open" /\ sessions_created = 0)
    /\ session = "None"
       => /\ sessions_open = 0
          /\ supplied # "absent" => (supplied = "closed" /\ sessions_created > 0)
    /\ sessions_open <= 1

\* the session given was closed by its owner, a request() replaced it, and
\* close() closed the replacement
C26_Witness ==
    /\ supplied = "closed" /\ now > 0
    /\ sessions_created = 1 /\ sessions_open = 0
    /\ session = "None" /\ owned_session

\* the cache as call c left it when it had its token
CacheAfterAcquiring(c) ==
    IF Granted(c)
    THEN [access_token |-> token_delivery[c].access_token,
          token_expires_at |->
              token_delivery[c].at + token_delivery[c].expires_in - 60]
    ELSE [access_token |-> start[c].access_token,
          token_expires_at |-> start[c].token_expires_at]

\* C25: a call whose attempt is answered 401 ends by raising
\* AuthenticationError with status code 401; it has fetched no token beyond
\* the one it may have fetched before its first attempt; and until the
\* next use of the client the cached token and expiry are what they were
\* when the call had its token. The next call, when it starts before the
\* cached expiry, fetches nothing and sends the token the rejected call
\* sent.
C25_RejectedTokenKept ==
    \A c \in Calls :
        GotStatus(c, {401})
        => /\ Done(c)
           /\ result[c] = Raised(Error("AuthenticationError", 401, 0))
           /\ fetches[c] = IF Granted(c) THEN 1 ELSE 0
           /\ (\A d \in Calls : d > c => pc[d] = "idle")
              => /\ access_token = CacheAfterAcquiring(c).access_token
                 /\ token_expires_at = CacheAfterAcquiring(c).token_expires_at
           /\ \A d \in Calls :
                 (d = c + 1 /\ Started(d))
                 => /\ start[d].access_token = CacheAfterAcquiring(c).access_token
                    /\ start[d].token_expires_at =
                          CacheAfterAcquiring(c).token_expires_at
           /\ \A d \in Calls :
                 (d = c + 1 /\ Started(d) /\ StartedFresh(d))
                 => /\ fetches[d] = 0
                    /\ pc[d] # "token_fetch"
                    /\ n_sent[d] >= 1
                       => /\ SentWith(d, start[d].access_token)
                          /\ SentWith(c, start[d].access_token)

\* the first call fetched a token and was answered 401; the second call
\* started later, before the cached expiry, and sends that token
C25_Witness ==
    \E c \in Calls, d \in Calls :
        /\ d = c + 1
        /\ GotStatus(c, {401}) /\ Granted(c) /\ SentWith(c, "tokA")
        /\ StartedFresh(d) /\ fetches[d] = 0
        /\ pc[d] = "inflight" /\ SentWith(d, "tokA")
        /\ access_token = "tokA"

RECURSIVE Concat(_)
\* the items of a sequence of pages, in order
Concat(ps) == IF ps = <<>> THEN <<>> ELSE Head(ps) \o Concat(Tail(ps))
\* the pages before the one received last
EarlierPages == SubSeq(pages, 1, Len(pages) - 1)
IterateEnded == iter_pc \in {"exhausted", "raised"}

\* what holds of iterate(limit) at every step
IterateStepwise ==
    iter_pc # "idle"
    => \* the list() calls carry the offsets 0, limit, 2*limit, ... in order
       /\ \A i \in 1..Len(requested) : requested[i] = (i - 1) * limit
       \* one page per list() call that has returned
       /\ Len(pages) = IF iter_pc \in {"suspended", "exhausted"}
                       THEN Len(requested) ELSE Len(requested) - 1
       \* what has been yielded is the pages in the order received, each in
       \* the order of the page, up to the item yielded last
       /\ yielded = IF iter_pc = "suspended"
                    THEN Concat(EarlierPages) \o SubSeq(transactions, 1, tx_index)
                    ELSE Concat(pages)
       /\ iter_pc = "suspended" => transactions = pages[Len(pages)] /\ tx_index >= 1
       \* the items come in server order
       /\ \A k \in 1..Len(yielded) : yielded[k] = FromDict(server_transactions[k])
       \* a page before the last one received has at least limit items
       /\ \A i \in 1..(Len(pages) - 1) : Len(pages[i]) >= limit
       \* another page is requested only after a page of at least limit items
       /\ (iter_pc = "awaiting_list" /\ pages # <<>>)
          => Len(pages[Len(pages)]) >= limit
       \* the generator ends after a page that is empty or short
       /\ iter_pc = "exhausted" => Len(pages[Len(pages)]) < limit
       \* no more list() calls than the list has pages of limit items, and one
       /\ Len(requested) <= Len(server_transactions) \div limit + 1

\* C28: iterate(limit) with limit >= 1 calls list() with the offsets 0,
\* limit, 2*limit, ... in order, yields the transactions of every page in
\* the order received, ends after the first page that is empty or has
\* fewer than limit items without another list() call, and always ends.
C28_IteratePagesInOrder == []IterateStepwise /\ <>IterateEnded

\* three transactions with limit 2: a full page, then a short page, then
\* the end, all three yielded
C28_Witness ==
    /\ iter_pc = "exhausted"
    /\ limit = 2
    /\ requested = <<0, 2>>
    /\ Len(pages) = 2 /\ Len(pages[1]) = 2 /\ Len(pages[2]) = 1
    /\ Len(yielded) = 3

\* C29: every handler invocation is for a message whose type has a
\* registered handler, the invocations follow the arrival order, an
\* invocation starts only when the one before it has finished, and no
\* invocation is for a message taken after close() was called.
C29_NoHandlerAfterClose ==
    \A i \in 1..Len(invocations) :
        /\ invocations[i].type \in handlers
        /\ \A j \in 1..(i - 1) :
              invocations[j].id < invocations[i].id /\ invocations[j].finished
        /\ ~invocations[i].taken_after_close

====
